---- MODULE Spec2Model ----
(***************************************************************************)
(* The POST handler of /api/generate-readme, in its two versions: the      *)
(* concurrent one (Promise.all fan-out) and the sequential one (one await  *)
(* per hosting call).  One request is followed from the credential check   *)
(* to its JSON response.                                                   *)
(*                                                                         *)
(* Strings are sequences of tokens; a token is a TLA+ string.  A URL is a  *)
(* sequence of one-character tokens, so that the regular expression is     *)
(* matched character by character.  '' is << >> and string concatenation   *)
(* is \o.  An optional JavaScript value (null / undefined or a value) is a *)
(* sequence of length 0 or 1.                                              *)
(***************************************************************************)
EXTENDS Integers, Sequences, FiniteSets, TLC

\* ------------------------------------------------------------------ bounds

\* Largest number of dependency names of a manifest.
MaxDeps == 11

\* ------------------------------------------------------- program constants

\* slice(0, 10) and length > 10 of the dependencies fragment.
DepLimit == 10

\* ---------------------------------------------------------------- helpers

None == << >>
Some(x) == << x >>
IsSome(o) == Len(o) > 0
Get(o) == o[1]

Range(s) == { s[i] : i \in 1..Len(s) }

RECURSIVE Flatten(_)
Flatten(ss) == IF Len(ss) = 0 THEN << >> ELSE Head(ss) \o Flatten(Tail(ss))

\* Array.prototype.join on an array of strings (each a token sequence).
RECURSIVE JoinWith(_, _)
JoinWith(strs, sep) ==
    IF Len(strs) = 0 THEN << >>
    ELSE IF Len(strs) = 1 THEN Head(strs)
    ELSE Head(strs) \o sep \o JoinWith(Tail(strs), sep)

\* Array.prototype.join(', ') on an array of names (each one token).
JoinNames(names) == JoinWith([i \in 1..Len(names) |-> << names[i] >>], << ", " >>)

\* Array.prototype.slice(0, n)
SliceFirst(s, n) == SubSeq(s, 1, IF Len(s) < n THEN Len(s) ELSE n)

\* Array.prototype.filter(Boolean) on an array of strings: '' is falsy.
RECURSIVE FilterBoolean(_)
FilterBoolean(strs) ==
    IF Len(strs) = 0 THEN << >>
    ELSE IF Len(Head(strs)) = 0 THEN FilterBoolean(Tail(strs))
    ELSE << Head(strs) >> \o FilterBoolean(Tail(strs))

\* ------------------------------------------------- the URL pattern (regex)

Uppers == << "A","B","C","D","E","F","G","H","I","J","K","L","M",
             "N","O","P","Q","R","S","T","U","V","W","X","Y","Z" >>
Lowers == << "a","b","c","d","e","f","g","h","i","j","k","l","m",
             "n","o","p","q","r","s","t","u","v","w","x","y","z" >>

CaseFold ==
    [c \in { Uppers[i] : i \in 1..Len(Uppers) } |->
        Lowers[CHOOSE i \in 1..Len(Uppers) : Uppers[i] = c]]

\* The /i flag: characters are compared after case folding.
Canonicalize(c) == IF c \in DOMAIN CaseFold THEN CaseFold[c] ELSE c

\* s has the literal lit at position i, compared case-insensitively.
LiteralAt(s, i, lit) ==
    /\ i + Len(lit) - 1 <= Len(s)
    /\ \A k \in 1..Len(lit) : Canonicalize(s[i + k - 1]) = Canonicalize(lit[k])

DomainLiteral == << "g","i","t","h","u","b",".","c","o","m","/" >>
GitSuffix == << ".","g","i","t" >>

\* [^\/]+ over s[from .. from+n-1]
NoSlashRun(s, from, n) ==
    /\ n >= 1
    /\ from + n - 1 <= Len(s)
    /\ \A k \in from..(from + n - 1) : s[k] # "/"

\* (\.git)?$ at position p: the rest of s is '' or '.git'.
SuffixThenEnd(s, p) ==
    \/ p = Len(s) + 1
    \/ (LiteralAt(s, p, GitSuffix) /\ p + Len(GitSuffix) = Len(s) + 1)

\* ([^\/]+?)(\.git)?$ from position r with a repo group of m characters.
RepoMatches(s, r, m) == NoSlashRun(s, r, m) /\ SuffixThenEnd(s, r + m)

\* ([^\/]+)\/ from position o with an owner group of n characters, the rest
\* of the pattern matching after it.
OwnerMatches(s, o, n) ==
    /\ NoSlashRun(s, o, n)
    /\ o + n <= Len(s)
    /\ s[o + n] = "/"
    /\ \E m \in 1..Len(s) : RepoMatches(s, o + n + 1, m)

\* The pattern matches s starting at position i.
MatchesAt(s, i) ==
    /\ LiteralAt(s, i, DomainLiteral)
    /\ \E n \in 1..Len(s) : OwnerMatches(s, i + Len(DomainLiteral), n)

\* The mutant of GroupsAt: a greedy repo group, which keeps the .git suffix.
GroupsAtGreedyRepo(s, i) ==
    LET o == i + Len(DomainLiteral)
        n == CHOOSE x \in 1..Len(s) :
                /\ OwnerMatches(s, o, x)
                /\ \A y \in 1..Len(s) : OwnerMatches(s, o, y) => y <= x
        r == o + n + 1
        m == CHOOSE x \in 1..Len(s) :
                /\ RepoMatches(s, r, x)
                /\ \A y \in 1..Len(s) : RepoMatches(s, r, y) => y <= x
    IN  [owner |-> SubSeq(s, o, o + n - 1), repo |-> SubSeq(s, r, r + m - 1)]

\* The capture groups of the match starting at i: the owner group is greedy
\* (the longest that lets the rest match), the repo group lazy (the shortest).
GroupsAt(s, i) ==
    LET o == i + Len(DomainLiteral)
        n == CHOOSE x \in 1..Len(s) :
                /\ OwnerMatches(s, o, x)
                /\ \A y \in 1..Len(s) : OwnerMatches(s, o, y) => y <= x
        r == o + n + 1
        m == CHOOSE x \in 1..Len(s) :
                /\ RepoMatches(s, r, x)
                /\ \A y \in 1..Len(s) : RepoMatches(s, r, y) => x <= y
    IN  [owner |-> SubSeq(s, o, o + n - 1), repo |-> SubSeq(s, r, r + m - 1)]

\* repoUrl.match(/github\.com\/([^\/]+)\/([^\/]+?)(\.git)?$/i): None (null)
\* or the groups of the leftmost match.
githubUrlMatch(s) ==
    IF \E i \in 1..Len(s) : MatchesAt(s, i)
    THEN Some(GroupsAt(s, CHOOSE i \in 1..Len(s) :
                 /\ MatchesAt(s, i)
                 /\ \A j \in 1..Len(s) : MatchesAt(s, j) => i <= j))
    ELSE None

\* ------------------------------------------------------------ Object.keys

\* The property names that are array indices (canonical numeric strings),
\* with their numeric values.
ArrayIndexValue == ("7" :> 7) @@ ("42" :> 42)
IsArrayIndex(k) == k \in DOMAIN ArrayIndexValue

IndexBefore(a, b) == ArrayIndexValue[a] < ArrayIndexValue[b]

\* Object.keys of an object whose properties were created in the order
\* props (JSON.parse creates them in source order; the names are distinct):
\* array-index names in ascending numeric order, then the other names in
\* creation order.
ObjectKeys(props) ==
    LET IsIdx(k) == IsArrayIndex(k)
        NotIdx(k) == ~IsArrayIndex(k)
    IN  SortSeq(SelectSeq(props, IsIdx), IndexBefore) \o SelectSeq(props, NotIdx)

\* ------------------------------------------------------- safeDecodeBase64

\* The content field of a file response is None (undefined), or an encoded
\* text: [base64 |-> TRUE/FALSE (decodes to the text or to garbage),
\*        json |-> the value JSON.parse gives, None when it throws,
\*        empty |-> the string is ''].
\* A parsed value is None (a falsy JSON value: null, 0, false, "") or Some
\* manifest object.
safeDecodeBase64(encoded) ==
    IF ~IsSome(encoded) \/ Get(encoded).empty THEN None
    ELSE IF ~Get(encoded).base64 \/ ~IsSome(Get(encoded).json) THEN None
    ELSE Get(Get(encoded).json)

\* ------------------------------------------------------- context assembly

\* value || 'N/A' for a string-valued field that may be null or ''.
OrNA(v) == IF IsSome(v) /\ Len(Get(v)) > 0 THEN Get(v) ELSE << "N/A" >>

\* The mutant of DescriptionFragment: no fragment for a missing description.
DescriptionFragmentOmitting(repoInfoV) ==
    IF IsSome(repoInfoV) /\ IsSome(Get(repoInfoV).description)
                         /\ Len(Get(Get(repoInfoV).description)) > 0
    THEN << "Description: " >> \o Get(Get(repoInfoV).description)
    ELSE << >>

DescriptionFragment(repoInfoV) ==
    IF IsSome(repoInfoV)
    THEN << "Description: " >> \o OrNA(Get(repoInfoV).description)
    ELSE << >>

MainLanguageFragment(repoInfoV) ==
    IF IsSome(repoInfoV)
    THEN << "Main Language: " >> \o OrNA(Get(repoInfoV).language)
    ELSE << >>

LanguagesFragment(languagesV) ==
    IF IsSome(languagesV)
    THEN << "Language Breakdown: " >> \o JoinNames(ObjectKeys(Get(languagesV)))
    ELSE << >>

\* item.name + (item.type === 'dir' ? '/' : '')
RootItemText(item) ==
    << item.name >> \o (IF item.type = "dir" THEN << "/" >> ELSE << >>)

RootFragment(rootContentV) ==
    IF Len(rootContentV) > 0
    THEN << "Root Directory Contents: " >>
         \o JoinWith([i \in 1..Len(rootContentV) |-> RootItemText(rootContentV[i])],
                     << ", " >>)
    ELSE << >>

PackageNameFragment(pkgV) ==
    IF IsSome(pkgV)
    THEN << "Package Name: " >> \o OrNA(Get(pkgV).name)
    ELSE << >>

\* The mutant of DependenciesFragment: slice(0, 11).
DependenciesFragmentOffByOne(pkgV) ==
    IF IsSome(pkgV) /\ IsSome(Get(pkgV).dependencies)
    THEN LET keys == ObjectKeys(Get(Get(pkgV).dependencies))
         IN  << "Dependencies: " >> \o JoinNames(SliceFirst(keys, DepLimit + 1))
             \o << " " >> \o (IF Len(keys) > DepLimit THEN << "..." >> ELSE << >>)
    ELSE << >>

DependenciesFragment(pkgV) ==
    IF IsSome(pkgV) /\ IsSome(Get(pkgV).dependencies)
    THEN LET keys == ObjectKeys(Get(Get(pkgV).dependencies))
         IN  << "Dependencies: " >> \o JoinNames(SliceFirst(keys, DepLimit))
             \o << " " >> \o (IF Len(keys) > DepLimit THEN << "..." >> ELSE << >>)
    ELSE << >>

ScriptsFragment(pkgV) ==
    IF IsSome(pkgV) /\ IsSome(Get(pkgV).scripts)
    THEN << "Available Scripts: " >> \o JoinNames(ObjectKeys(Get(Get(pkgV).scripts)))
    ELSE << >>

\* The fragments of the context after the URL line, in the order of the
\* source, the fetch-error note excluded.
DataFragments(repoInfoV, languagesV, rootContentV, pkgV) ==
    << DescriptionFragment(repoInfoV),
       MainLanguageFragment(repoInfoV),
       LanguagesFragment(languagesV),
       RootFragment(rootContentV),
       PackageNameFragment(pkgV),
       DependenciesFragment(pkgV),
       ScriptsFragment(pkgV) >>

\* The concurrent handler: an array of fragments, filter(Boolean), join('\n').
NoteConcurrent(fetchErrorV) ==
    IF IsSome(fetchErrorV)
    THEN << "\n", "Note: GitHub fetch error occurred: " >> \o Get(fetchErrorV)
    ELSE << >>

ContextConcurrent(url, repoInfoV, languagesV, rootContentV, pkgV, fetchErrorV) ==
    JoinWith(FilterBoolean(<< << "Repository URL: " >> \o url >>
                           \o DataFragments(repoInfoV, languagesV, rootContentV, pkgV)
                           \o << NoteConcurrent(fetchErrorV) >>),
             << "\n" >>)

\* The sequential handler: a template literal, one indented line for each
\* fragment, empty or not.
Indent == "          "

NoteSequential(fetchErrorV) ==
    IF IsSome(fetchErrorV)
    THEN << "\n", "Note: There was an error fetching full details from GitHub: " >>
         \o Get(fetchErrorV)
    ELSE << >>

ContextSequential(url, repoInfoV, languagesV, rootContentV, pkgV, fetchErrorV) ==
    LET frags == << << "Repository URL: " >> \o url >>
                 \o DataFragments(repoInfoV, languagesV, rootContentV, pkgV)
                 \o << NoteSequential(fetchErrorV) >>
    IN  Flatten([i \in 1..Len(frags) |-> << "\n", Indent >> \o frags[i]])
        \o << "\n", "        " >>

\* ------------------------------------------------------------- the inputs

Concurrent == "concurrent"
Sequential == "sequential"

\* The outbound calls, the hosting calls in the order the source issues them.
RepoCall == "repos.get"
LangCall == "repos.listLanguages"
RootCall == "repos.getContent:"
PkgCall == "repos.getContent:package.json"
GenCall == "generateContent"
HostingCalls == << RepoCall, LangCall, RootCall, PkgCall >>

\* process.env: whether each secret is set to a non-empty value.
Envs == [apiKey : BOOLEAN, githubPat : BOOLEAN]

\* Request URLs, character by character.
Schemes == { << >>, << "h","t","t","p","s",":","/","/" >>, << "h","t","t","p",":","/","/","w","w","w","." >> }
Hosts == { << "g","i","t","h","u","b",".","c","o","m" >>, << "G","i","t","H","u","b",".","C","O","M" >>, << "g","i","t","l","a","b",".","c","o","m" >> }
Owners == { << "a","c","m","e" >>, << "O","c","t","o","-","C","a","t" >> }
Repos == { << "w","i","d","g","e","t" >>, << "m","y",".","r","e","p","o" >> }
Suffixes == { << >>, << ".","g","i","t" >>, << ".","G","I","T" >>, << "/" >>, << ".","g","i","t",".","g","i","t" >>, << "/","t","r","e","e" >> }

ShapedUrls ==
    { sch \o host \o << "/" >> \o own \o << "/" >> \o rep \o suf :
        sch \in Schemes, host \in Hosts, own \in Owners, rep \in Repos,
        suf \in Suffixes }

OddUrls ==
    { << "h","t","t","p","s",":","/","/" >> \o << "g","i","t","h","u","b",".","c","o","m" >>,
      << "h","t","t","p","s",":","/","/" >> \o << "g","i","t","h","u","b",".","c","o","m" >> \o << "/" >> \o << "a","c","m","e" >>,
      << "h","t","t","p","s",":","/","/" >> \o << "g","i","t","h","u","b",".","c","o","m" >> \o << "/", "/" >> \o << "w","i","d","g","e","t" >>,
      << "h","t","t","p","s",":","/","/" >> \o << "g","i","t","h","u","b",".","c","o","m" >> \o << "/" >> \o << "a","c","m","e" >> \o << "/" >> \o << ".","g","i","t" >>,
      << "h","t","t","p","s",":","/","/" >> \o << "g","i","t","h","u","b",".","c","o","m" >> \o << "/" >> \o << "g","i","t","h","u","b",".","c","o","m" >> \o << "/" >> \o << "a","c","m","e" >>
          \o << "/" >> \o << "w","i","d","g","e","t" >>,
      << "a","c","m","e" >> }

WidgetUrl == << "h","t","t","p","s",":","/","/" >> \o << "g","i","t","h","u","b",".","c","o","m" >> \o << "/" >> \o << "a","c","m","e" >> \o << "/" >> \o << "w","i","d","g","e","t" >>

\* A value of body.repoUrl: its typeof, whether it is truthy, and, for a
\* string, its characters.
StringValue(chs) == [type |-> "string", truthy |-> Len(chs) > 0, str |-> chs]
NonStringValues ==
    { [type |-> "undefined", truthy |-> FALSE, str |-> << >>],
      [type |-> "object", truthy |-> FALSE, str |-> << >>],   \* null
      [type |-> "object", truthy |-> TRUE, str |-> << >>],    \* {} or []
      [type |-> "number", truthy |-> FALSE, str |-> << >>],   \* 0
      [type |-> "number", truthy |-> TRUE, str |-> << >>] }   \* 5

\* A request body: text that is no JSON, the JSON null, or a JSON value
\* whose repoUrl property has the given value (undefined when it has none).
BodyOf(v) == [kind |-> "value", repoUrl |-> v]
BadBodies ==
    { [kind |-> "malformed", repoUrl |-> StringValue(<< >>)],
      [kind |-> "null", repoUrl |-> StringValue(<< >>)] }
    \cup { BodyOf(v) : v \in NonStringValues \cup { StringValue(<< >>) } }
UrlBodies == { BodyOf(StringValue(u)) : u \in ShapedUrls \cup OddUrls }
WidgetBody == BodyOf(StringValue(WidgetUrl))

\* An answer of the hosting API: fulfilled with data, or rejected with an
\* error carrying a status (0: none, a network error) and a message.
Fulfilled(d) == [ok |-> TRUE, status |-> 200, message |-> << >>, data |-> d]
Rejected(st, msg, d) == [ok |-> FALSE, status |-> st, message |-> << msg >>, data |-> d]

NoRepoData == [description |-> None, language |-> None]
RepoOutcomes ==
    { Fulfilled([description |-> Some(<< "A widget" >>),
                 language |-> Some(<< "TypeScript" >>)]),
      Fulfilled([description |-> None, language |-> None]),
      Fulfilled([description |-> Some(<< >>), language |-> Some(<< "Go" >>)]),
      Rejected(404, "Not Found", NoRepoData),
      Rejected(0, "connect ECONNREFUSED", NoRepoData) }

LangOutcomes ==
    { Fulfilled(<< "TypeScript", "CSS" >>),
      Fulfilled(<< >>),
      Rejected(403, "API rate limit exceeded", << >>) }

\* The listing of the root directory is an array of entries; the hosting
\* API answers 404 for a repository without files.
RootOutcomes ==
    { Fulfilled([isArray |-> TRUE,
                 items |-> << [name |-> "src", type |-> "dir"],
                              [name |-> "package.json", type |-> "file"] >>]),
      Fulfilled([isArray |-> TRUE, items |-> << >>]),
      Fulfilled([isArray |-> FALSE, items |-> << >>]),
      Rejected(404, "This repository is empty.",
               [isArray |-> FALSE, items |-> << >>]) }

\* Dependency names in manifest order; the second list holds names that are
\* array indices.
DepPoolPlain == << "react", "next", "zod", "axios", "lodash", "dayjs", "clsx",
                   "swr", "uuid", "immer", "yup", "ky", "ms", "qs" >>
DepPoolIndexed == << "react", "next", "7", "axios", "lodash", "dayjs", "clsx",
                     "swr", "uuid", "immer", "42", "ky", "ms", "qs" >>

Manifest(n, d, sc) == [name |-> n, dependencies |-> d, scripts |-> sc]
CoreManifests ==
    { Manifest(Some(<< "widget" >>), Some(<< "react", "next" >>),
               Some(<< "dev", "build" >>)),
      Manifest(None, None, None) }
DepManifests ==
    { Manifest(n, Some(SubSeq(pool, 1, k)), sc) :
        n \in { Some(<< "widget" >>), Some(<< >>) },
        pool \in { DepPoolPlain, DepPoolIndexed },
        k \in 0..MaxDeps,
        sc \in { None, Some(<< "test" >>) } }

\* The file response of package.json: whether data has a content property,
\* and the content.
Encoded(parsed) == Some([empty |-> FALSE, base64 |-> TRUE, json |-> Some(parsed)])
FileData(m) == [hasContent |-> TRUE, content |-> Encoded(Some(m))]
NoFileData == [hasContent |-> FALSE, content |-> None]
PkgFailures ==
    { Rejected(404, "Not Found", NoFileData),
      Rejected(500, "Server Error", NoFileData),
      Rejected(0, "socket hang up", NoFileData) }
PkgOddFiles ==
    { Fulfilled(NoFileData),                                   \* a directory
      Fulfilled([hasContent |-> TRUE, content |-> None]),
      Fulfilled([hasContent |-> TRUE,
                 content |-> Some([empty |-> TRUE, base64 |-> TRUE, json |-> None])]),
      Fulfilled([hasContent |-> TRUE,
                 content |-> Some([empty |-> FALSE, base64 |-> TRUE, json |-> None])]),
      Fulfilled([hasContent |-> TRUE, content |-> Encoded(None)]) }
PkgCoreOutcomes == PkgFailures \cup { Fulfilled(FileData(m)) : m \in CoreManifests }
PkgDepOutcomes == { Fulfilled(FileData(m)) : m \in DepManifests }

\* The result of generateContent: it throws (an error with or without a
\* message), resolves without a response object, or resolves with a response
\* whose text() returns the text or throws; the response may expose a block
\* reason and a finish reason.
AiOutcome(k, msg, br, fr) ==
    [kind |-> k, message |-> msg, text |-> << "# widget", "\n", "..." >>,
     blockReason |-> br, finishReason |-> fr]
AiText == AiOutcome("text", None, None, Some("STOP"))
AiOutcomes ==
    { AiText,
      AiOutcome("throws", Some(<< "fetch failed" >>), None, None),
      AiOutcome("throws", None, None, None),
      AiOutcome("noResponse", None, None, None),
      AiOutcome("textThrows", Some(<< "Response was blocked" >>), Some("SAFETY"), None),
      AiOutcome("textThrows", Some(<< "Candidate was blocked" >>), None, Some("SAFETY")),
      AiOutcome("textThrows", Some(<< "Response was blocked" >>), Some("OTHER"),
                Some("MAX_TOKENS")),
      AiOutcome("textThrows", None, None, Some("STOP")) }

GitHub(r, l, rt, p) == [repo |-> r, languages |-> l, root |-> rt, pkg |-> p]
World(h, e, b, g, a) == [handler |-> h, env |-> e, body |-> b, github |-> g, ai |-> a]

FullRepo ==
    GitHub(Fulfilled([description |-> Some(<< "A widget" >>),
                      language |-> Some(<< "TypeScript" >>)]),
           Fulfilled(<< "TypeScript", "CSS" >>),
           Fulfilled([isArray |-> TRUE,
                      items |-> << [name |-> "src", type |-> "dir"],
                                   [name |-> "package.json", type |-> "file"] >>]),
           Rejected(404, "Not Found", NoFileData))

Handlers == { Concurrent, Sequential }

\* Every combination of answers for one well-formed request.
CoreWorlds ==
    { World(h, [apiKey |-> TRUE, githubPat |-> TRUE], WidgetBody, GitHub(r, l, rt, p), a) :
        h \in Handlers, r \in RepoOutcomes, l \in LangOutcomes, rt \in RootOutcomes,
        p \in PkgCoreOutcomes, a \in AiOutcomes }

\* Every environment with every kind of body.
EnvWorlds ==
    { World(h, e, b, FullRepo, AiText) :
        h \in Handlers, e \in Envs, b \in BadBodies \cup { WidgetBody } }

\* Every URL, all calls succeeding.
UrlWorlds ==
    { World(h, [apiKey |-> TRUE, githubPat |-> TRUE], b, FullRepo, AiText) :
        h \in Handlers, b \in UrlBodies }

\* Every manifest, the other calls succeeding.
ManifestWorlds ==
    { World(h, [apiKey |-> TRUE, githubPat |-> TRUE], WidgetBody,
            GitHub(r, FullRepo.languages, FullRepo.root, p), AiText) :
        h \in Handlers,
        r \in { x \in RepoOutcomes : x.ok },
        p \in PkgDepOutcomes \cup PkgOddFiles }

Worlds == CoreWorlds \cup EnvWorlds \cup UrlWorlds \cup ManifestWorlds

\* --------------------------------------------------------------- the state

VARIABLES
    handler,            \* which version of route.ts serves the request
    env,                \* process.env
    body,               \* the request body
    github,             \* what the hosting API answers to each call
    ai,                 \* what the inference API answers
    pc,                 \* where the handler is
    bodyRead,           \* request.json() has been called
    owner, repo,        \* the parsed owner and repo (None before)
    repoUrl,            \* body.repoUrl once read
    calls,              \* the outbound calls issued so far, in order
    inflight,           \* the hosting calls issued and not yet settled
    allState,           \* Promise.all: pending, fulfilled or rejected
    allReason,          \* the call whose rejection rejected Promise.all
    seqIdx,             \* the next hosting call of the sequential handler
    repoInfo, languages, rootContent, packageJsonContent, fetchError,
    context,            \* the context of the prompt sent (None before)
    response            \* the JSON response (None before)

\* The state of the form (page.tsx).  The form's own repoUrl is urlInput:
\* repoUrl above is the handler's.
VARIABLES
    urlInput,           \* useState repoUrl: the value of the input
    generatedReadme,    \* useState generatedReadme
    isLoading,          \* useState isLoading
    error,              \* useState error (None is null)
    statusMessage,      \* useState statusMessage
    copyStatus,         \* useState copyStatus: idle, copied or failed
    clipboardApi,       \* navigator.clipboard.writeText exists
    submitAt,           \* where handleSubmit is: idle, fetch or json
    capturedError,      \* the error of the render whose handleSubmit runs
    reply,              \* the response handleSubmit has received (None before)
    writes,             \* the copy actions awaiting clipboard.writeText
    timers,             \* the pending setTimeout callbacks, oldest first
    copies, submits,    \* how many copy clicks and submissions so far
    statusSetBy         \* the copy action that set copyStatus (0 when idle)

server == << handler, env, body, github, ai, pc, bodyRead, owner, repo, repoUrl,
             calls, inflight, allState, allReason, seqIdx, repoInfo, languages,
             rootContent, packageJsonContent, fetchError, context, response >>

client == << urlInput, generatedReadme, isLoading, error, statusMessage, copyStatus,
             clipboardApi, submitAt, capturedError, reply, writes, timers, copies,
             submits, statusSetBy >>

vars == << server, client >>

world == << handler, env, body, github, ai >>
fetched == << repoInfo, languages, rootContent, packageJsonContent, fetchError >>
parsed == << owner, repo, repoUrl >>

\* A request arrives in one of the worlds W: nothing has run yet.
RequestInit(W) ==
    /\ \E w \in W :
          /\ handler = w.handler
          /\ env = w.env
          /\ body = w.body
          /\ github = w.github
          /\ ai = w.ai
    /\ pc = "start"
    /\ bodyRead = FALSE
    /\ owner = None
    /\ repo = None
    /\ repoUrl = None
    /\ calls = << >>
    /\ inflight = {}
    /\ allState = "pending"
    /\ allReason = ""
    /\ seqIdx = 1
    /\ repoInfo = None
    /\ languages = None
    /\ rootContent = << >>
    /\ packageJsonContent = None
    /\ fetchError = None
    /\ context = None
    /\ response = None

\* The form as Home() constructs it, in a browser with or without the
\* clipboard API.
FormInit(apis) ==
    /\ urlInput = << >>
    /\ generatedReadme = << >>
    /\ isLoading = FALSE
    /\ error = None
    /\ statusMessage = << >>
    /\ copyStatus = "idle"
    /\ clipboardApi \in apis
    /\ submitAt = "idle"
    /\ capturedError = None
    /\ reply = None
    /\ writes = {}
    /\ timers = << >>
    /\ copies = 0
    /\ submits = 0
    /\ statusSetBy = 0

Init == RequestInit(Worlds) /\ FormInit({ TRUE })

\* NextResponse.json({ readme }): the status defaults to 200.
ReadmeResponse(text) == [status |-> 200, readme |-> Some(text), error |-> None]

\* The mutant of ErrorResponse: the { status } option is left out.
ErrorResponseDefaultStatus(st, msg) ==
    [status |-> 200, readme |-> None, error |-> Some(msg)]

\* NextResponse.json({ error }, { status })
ErrorResponse(st, msg) == [status |-> st, readme |-> None, error |-> Some(msg)]

\* ------------------------------------------------------------ credentials

\* The mutant of CredentialsMissing: only the inference-API key is checked.
CredentialsMissingKeyOnly(e) == ~e.apiKey

\* !apiKey || !githubPat
CredentialsMissing(e) == ~e.apiKey \/ ~e.githubPat

\* if (!apiKey || !githubPat) return 500 'Server configuration error.'
CheckCredentials ==
    /\ pc = "start"
    /\ IF CredentialsMissing(env)
       THEN /\ response' = Some(ErrorResponse(500, << "Server configuration error." >>))
            /\ pc' = "done"
       ELSE /\ response' = response
            /\ pc' = "body"
    /\ UNCHANGED << client, world, bodyRead, parsed, calls, inflight, allState, allReason,
                    seqIdx, fetched, context >>

\* ------------------------------------------------- the body and its repoUrl

\* What the try block of the concurrent handler throws for a body, None
\* when it throws nothing (the message of the error).
ParseErrorConcurrent(b) ==
    IF b.kind = "malformed" THEN Some(<< "Unexpected token in JSON" >>)
    ELSE IF b.kind = "null"
    THEN Some(<< "Cannot read properties of null (reading 'repoUrl')" >>)
    ELSE IF b.repoUrl.type = "undefined" \/ (b.repoUrl.type = "object" /\ ~b.repoUrl.truthy)
    THEN Some(<< "Could not parse GitHub owner/repo from URL." >>)  \* ?. gives undefined
    ELSE IF b.repoUrl.type # "string"
    THEN Some(<< "repoUrl?.match is not a function" >>)
    ELSE IF ~IsSome(githubUrlMatch(b.repoUrl.str))
    THEN Some(<< "Could not parse GitHub owner/repo from URL." >>)
    ELSE None

\* The same for the sequential handler.
ParseErrorSequential(b) ==
    IF b.kind = "malformed" THEN Some(<< "Unexpected token in JSON" >>)
    ELSE IF b.kind = "null"
    THEN Some(<< "Cannot read properties of null (reading 'repoUrl')" >>)
    ELSE IF ~b.repoUrl.truthy \/ b.repoUrl.type # "string"
    THEN Some(<< "Invalid or missing repository URL." >>)
    ELSE IF ~IsSome(githubUrlMatch(b.repoUrl.str))
    THEN Some(<< "Could not parse GitHub owner/repo from URL." >>)
    ELSE None

\* The mutant of ParseError: the URL is not matched against the pattern.
ParseErrorNoPattern(h, b) ==
    IF b.kind = "malformed" THEN Some(<< "Unexpected token in JSON" >>)
    ELSE IF b.kind = "null"
    THEN Some(<< "Cannot read properties of null (reading 'repoUrl')" >>)
    ELSE IF ~b.repoUrl.truthy \/ b.repoUrl.type # "string"
    THEN Some(<< "Invalid or missing repository URL." >>)
    ELSE None

ParseError(h, b) ==
    IF h = Concurrent THEN ParseErrorConcurrent(b) ELSE ParseErrorSequential(b)

\* error.message || 'Invalid request format or URL.'
MessageOr(msg, default) ==
    IF IsSome(msg) /\ Len(Get(msg)) > 0 THEN Get(msg) ELSE default

\* request.json() is called and the handler awaits its promise.
ReadBody ==
    /\ pc = "body"
    /\ bodyRead' = TRUE
    /\ pc' = "awaitBody"
    /\ UNCHANGED << client, world, parsed, calls, inflight, allState, allReason, seqIdx,
                    fetched, context, response >>

\* await request.json() settles: the rest of the try block (body.repoUrl,
\* the match) and the catch that answers 400.
BodySettles ==
    /\ pc = "awaitBody"
    /\ LET err == ParseError(handler, body)
           m == IF body.kind = "value" /\ body.repoUrl.type = "string"
                THEN githubUrlMatch(body.repoUrl.str) ELSE None
       IN  IF IsSome(err)
           THEN /\ response' = Some(ErrorResponse(400,
                                  MessageOr(err, << "Invalid request format or URL." >>)))
                /\ pc' = "done"
                /\ UNCHANGED parsed
           ELSE /\ response' = response
                /\ pc' = "fetch"
                /\ repoUrl' = Some(body.repoUrl.str)
                /\ owner' = IF IsSome(m) THEN Some(Get(m).owner) ELSE None
                /\ repo' = IF IsSome(m) THEN Some(Get(m).repo) ELSE None
    /\ UNCHANGED << client, world, bodyRead, calls, inflight, allState, allReason, seqIdx,
                    fetched, context >>

\* ------------------------------------------------------- the hosting calls

Answer(c) ==
    CASE c = RepoCall -> github.repo
      [] c = LangCall -> github.languages
      [] c = RootCall -> github.root
      [] c = PkgCall -> github.pkg

\* error.status || 'Unknown'
StatusOrUnknown(st) == IF st = 0 THEN << "Unknown" >> ELSE << ToString(st) >>

FetchErrorConcurrent(err) ==
    << "Failed to fetch data from GitHub (Status: " >> \o StatusOrUnknown(err.status)
    \o << "). " >> \o err.message

FetchErrorSequential(err) ==
    << "Failed to fetch data from GitHub (Status: " >> \o StatusOrUnknown(err.status)
    \o << "). " >> \o err.message
    \o << ". Is the repository public and spelled correctly?" >>

\* rootContentResponse.data mapped to { name, type } when it is an array.
RootEntries(data) ==
    IF data.isArray
    THEN [i \in 1..Len(data.items) |-> [name |-> data.items[i].name,
                                        type |-> data.items[i].type]]
    ELSE << >>

\* The manifest of a fulfilled package.json response.
ManifestOf(data) == IF data.hasContent THEN safeDecodeBase64(data.content) ELSE None

\* A mutant of PkgRejects: the .catch returns null for every error.
PkgRejectsNever(a) == FALSE

\* The mutant of PkgRejects: the .catch rethrows every error, 404 too.
PkgRejectsAlways(a) == ~a.ok

\* The promise of the package.json lookup rejects: the .catch of the
\* concurrent handler returns null for 404 and rethrows the rest.
PkgRejects(a) == ~a.ok /\ a.status # 404

\* The promise of call c, as passed to Promise.all, rejects.
RejectsInAll(c) == IF c = PkgCall THEN PkgRejects(Answer(c)) ELSE ~Answer(c).ok

\* The concurrent handler issues the four calls, then awaits Promise.all.
FanOut ==
    /\ pc = "fetch"
    /\ handler = Concurrent
    /\ calls' = calls \o HostingCalls
    /\ inflight' = Range(HostingCalls)
    /\ pc' = "awaitAll"
    /\ UNCHANGED << client, world, bodyRead, parsed, allState, allReason, seqIdx, fetched,
                    context, response >>

\* One call of the fan-out settles: Promise.all rejects with the first
\* rejection and fulfils when the last call has fulfilled.  The calls still
\* in flight when Promise.all rejects go on and settle later.
HostingSettles(c) ==
    /\ handler = Concurrent
    /\ c \in inflight
    /\ inflight' = inflight \ {c}
    /\ IF allState = "pending" /\ RejectsInAll(c)
       THEN allState' = "rejected" /\ allReason' = c
       ELSE IF allState = "pending" /\ inflight = {c}
       THEN allState' = "fulfilled" /\ allReason' = allReason
       ELSE UNCHANGED << allState, allReason >>
    /\ UNCHANGED << client, world, pc, bodyRead, parsed, calls, seqIdx, fetched, context,
                    response >>

\* await Promise.all(...) returns or throws.
JoinReady == allState # "pending"

\* The mutant of Join: the catch answers 500 and returns.
JoinReturningOnFailure ==
    /\ pc = "awaitAll"
    /\ JoinReady
    /\ IF allState = "fulfilled"
       THEN /\ repoInfo' = Some(github.repo.data)
            /\ languages' = Some(github.languages.data)
            /\ rootContent' = RootEntries(github.root.data)
            /\ packageJsonContent' =
                  IF github.pkg.ok THEN ManifestOf(github.pkg.data) ELSE None
            /\ fetchError' = fetchError
            /\ response' = response
            /\ pc' = "generate"
       ELSE /\ fetchError' = Some(FetchErrorConcurrent(Answer(allReason)))
            /\ response' = Some(ErrorResponse(500, FetchErrorConcurrent(Answer(allReason))))
            /\ pc' = "done"
            /\ UNCHANGED << repoInfo, languages, rootContent, packageJsonContent >>
    /\ UNCHANGED << client, world, bodyRead, parsed, calls, inflight, allState, allReason,
                    seqIdx, context >>

\* The mutant of Join: Promise.all is not awaited, the handler goes on at once.
JoinWithoutAwait ==
    /\ pc = "awaitAll"
    /\ IF allState = "fulfilled"
       THEN /\ repoInfo' = Some(github.repo.data)
            /\ languages' = Some(github.languages.data)
            /\ rootContent' = RootEntries(github.root.data)
            /\ packageJsonContent' =
                  IF github.pkg.ok THEN ManifestOf(github.pkg.data) ELSE None
            /\ fetchError' = fetchError
       ELSE IF allState = "rejected"
       THEN /\ fetchError' = Some(FetchErrorConcurrent(Answer(allReason)))
            /\ UNCHANGED << repoInfo, languages, rootContent, packageJsonContent >>
       ELSE UNCHANGED fetched
    /\ pc' = "generate"
    /\ UNCHANGED << client, world, bodyRead, parsed, calls, inflight, allState, allReason,
                    seqIdx, context, response >>

\* The continuation of await Promise.all: the four assignments, or the catch
\* that records fetchError.
Join ==
    /\ pc = "awaitAll"
    /\ JoinReady
    /\ IF allState = "fulfilled"
       THEN /\ repoInfo' = Some(github.repo.data)
            /\ languages' = Some(github.languages.data)
            /\ rootContent' = RootEntries(github.root.data)
            /\ packageJsonContent' =
                  IF github.pkg.ok THEN ManifestOf(github.pkg.data) ELSE None
            /\ fetchError' = fetchError
       ELSE /\ fetchError' = Some(FetchErrorConcurrent(Answer(allReason)))
            /\ UNCHANGED << repoInfo, languages, rootContent, packageJsonContent >>
    /\ pc' = "generate"
    /\ UNCHANGED << client, world, bodyRead, parsed, calls, inflight, allState, allReason,
                    seqIdx, context, response >>

\* The sequential handler issues its next hosting call and awaits it.
SeqIssue ==
    /\ pc = "fetch"
    /\ handler = Sequential
    /\ calls' = Append(calls, HostingCalls[seqIdx])
    /\ inflight' = { HostingCalls[seqIdx] }
    /\ pc' = "await"
    /\ UNCHANGED << client, world, bodyRead, parsed, allState, allReason, seqIdx, fetched,
                    context, response >>

\* Whether the sequential handler records a failure of the package.json
\* lookup as fetchError: its inner catch logs every failure and goes on.
PkgFailureRecorded(a) == FALSE

\* The awaited call settles: its data is assigned, or the outer catch records
\* fetchError and the remaining calls are skipped.
SeqSettles ==
    /\ pc = "await"
    /\ LET c == HostingCalls[seqIdx]
           a == Answer(c)
           failed == IF c = PkgCall THEN PkgFailureRecorded(a) ELSE ~a.ok
       IN  /\ inflight' = inflight \ {c}
           /\ repoInfo' = IF c = RepoCall /\ a.ok THEN Some(a.data) ELSE repoInfo
           /\ languages' = IF c = LangCall /\ a.ok THEN Some(a.data) ELSE languages
           /\ rootContent' = IF c = RootCall /\ a.ok THEN RootEntries(a.data)
                             ELSE rootContent
           /\ packageJsonContent' = IF c = PkgCall /\ a.ok THEN ManifestOf(a.data)
                                    ELSE packageJsonContent
           /\ fetchError' = IF failed THEN Some(FetchErrorSequential(a)) ELSE fetchError
           /\ IF failed \/ c = PkgCall
              THEN pc' = "generate" /\ seqIdx' = seqIdx
              ELSE pc' = "fetch" /\ seqIdx' = seqIdx + 1
    /\ UNCHANGED << client, world, bodyRead, parsed, calls, allState, allReason, context,
                    response >>

\* ----------------------------------------------------------- generation

BuildContext ==
    IF handler = Concurrent
    THEN ContextConcurrent(Get(repoUrl), repoInfo, languages, rootContent,
                           packageJsonContent, fetchError)
    ELSE ContextSequential(Get(repoUrl), repoInfo, languages, rootContent,
                           packageJsonContent, fetchError)

\* The context and the prompt are built and generateContent is called.
Generate ==
    /\ pc = "generate"
    /\ context' = Some(BuildContext)
    /\ calls' = Append(calls, GenCall)
    /\ pc' = "awaitGen"
    /\ UNCHANGED << client, world, bodyRead, parsed, inflight, allState, allReason, seqIdx,
                    fetched, response >>

\* `${x}` of a message that may be undefined.
Interpolated(msg) == IF IsSome(msg) THEN Get(msg) ELSE << "undefined" >>

\* The outer catch of the concurrent handler.
ThrownErrorConcurrent(msg, fetchErrorV) ==
    LET fullErrorMessage ==
            IF IsSome(fetchErrorV)
            THEN Some(Get(fetchErrorV) \o << ". " >> \o Interpolated(msg))
            ELSE msg
    IN  << "Failed to process request: " >>
        \o MessageOr(fullErrorMessage, << "Unknown AI processing error." >>)

\* The outer catch of the sequential handler.
ThrownErrorSequential(msg, fetchErrorV) ==
    LET errorMessage ==
            MessageOr(msg, << "An unknown error occurred during README generation." >>)
    IN  << "Failed to process request: " >>
        \o (IF IsSome(fetchErrorV)
            THEN Get(fetchErrorV) \o << ". " >> \o errorMessage
            ELSE errorMessage)

\* if (!result.response)
NoResponseError(h) ==
    IF h = Concurrent
    THEN << "AI generation failed: No response received." >>
    ELSE << "AI generation failed: No response received. Check API key, model name, or network status." >>

\* The catch around result.response.text().
ExtractionErrorConcurrent(a) ==
    << "AI response error: " >> \o MessageOr(a.message, << "Failed to extract content." >>)

ExtractionErrorSequential(a) ==
    << "AI response error: Failed to generate content. Reason: " >>
    \o MessageOr(a.message, << "Extraction error" >>) \o << "." >>
    \o (IF IsSome(a.blockReason)
        THEN << " Blocking Reason: ", Get(a.blockReason), "." >> ELSE << >>)
    \o (IF IsSome(a.finishReason) /\ Get(a.finishReason) # "STOP"
        THEN << " Finish Reason: ", Get(a.finishReason), "." >> ELSE << >>)

\* The response to the outcome a of generateContent.
GenerationResponse(h, a, fetchErrorV) ==
    CASE a.kind = "text" -> ReadmeResponse(a.text)
      [] a.kind = "noResponse" -> ErrorResponse(500, NoResponseError(h))
      [] a.kind = "textThrows" ->
            ErrorResponse(500, IF h = Concurrent THEN ExtractionErrorConcurrent(a)
                               ELSE ExtractionErrorSequential(a))
      [] a.kind = "throws" ->
            ErrorResponse(500, IF h = Concurrent
                               THEN ThrownErrorConcurrent(a.message, fetchErrorV)
                               ELSE ThrownErrorSequential(a.message, fetchErrorV))

\* The mutant of GenSettles: a throwing text() is not caught, the handler
\* ends without a response.
GenSettlesUncaught ==
    /\ pc = "awaitGen"
    /\ response' = IF ai.kind = "textThrows" THEN response
                   ELSE Some(GenerationResponse(handler, ai, fetchError))
    /\ pc' = "done"
    /\ UNCHANGED << client, world, bodyRead, parsed, calls, inflight, allState, allReason,
                    seqIdx, fetched, context >>

\* generateContent settles and the handler answers.
GenSettles ==
    /\ pc = "awaitGen"
    /\ response' = Some(GenerationResponse(handler, ai, fetchError))
    /\ pc' = "done"
    /\ UNCHANGED << client, world, bodyRead, parsed, calls, inflight, allState, allReason,
                    seqIdx, fetched, context >>

Next ==
    \/ CheckCredentials
    \/ ReadBody
    \/ BodySettles
    \/ FanOut
    \/ \E c \in Range(HostingCalls) : HostingSettles(c)
    \/ Join
    \/ SeqIssue
    \/ SeqSettles
    \/ Generate
    \/ GenSettles

Spec == Init /\ [][Next]_vars

\* ========================================================= the client form
\* The form of page.tsx.  A step is one run of a handler from an event or a
\* settled await up to its next await: the state updates of such a run are
\* batched, so the state after the step is the state that is rendered.

\* setTimeout(..., 2000) after a copy, setTimeout(..., 3000) after a failure.
CopiedDelay == 2000
FailedDelay == 3000

\* How many copy clicks and submissions a run has.
MaxCopies == 3
MaxSubmits == 2

\* What the user types: the scheme, then the rest.
FormUrls ==
    { << "https://", "github.com/acme/widget" >>,
      << "http://", "github.com/acme/widget" >>,
      << "ftp://", "github.com/acme/widget" >> }

\* repoUrl.startsWith(prefix)
StartsWith(url, prefix) == Len(url) > 0 /\ url[1] = prefix

\* What fetch and response.json() give: fetch rejects, or resolves with a
\* response whose body is JSON (json is the parsed readme and error fields)
\* or is no JSON (json is None).
FetchRejects(msg) == [kind |-> "rejects", message |-> msg]
HttpReply(st, text, js) ==
    [kind |-> "response", status |-> st, statusText |-> text, json |-> js]
Json(readmeV, errorV) == [readme |-> readmeV, error |-> errorV]

Replies ==
    { FetchRejects(Some(<< "Failed to fetch" >>)),
      FetchRejects(None),
      HttpReply(200, << "OK" >>, Some(Json(Some(<< "# widget" >>), None))),
      HttpReply(200, << "OK" >>, Some(Json(Some(<< >>), None))),
      HttpReply(200, << "OK" >>, Some(Json(None, None))),
      HttpReply(200, << "OK" >>, None),
      HttpReply(400, << "Bad Request" >>,
                Some(Json(None, Some(<< "Could not parse GitHub owner/repo from URL." >>)))),
      HttpReply(500, << "Internal Server Error" >>,
                Some(Json(None, Some(<< "Server configuration error." >>)))),
      HttpReply(500, << "Internal Server Error" >>, Some(Json(None, None))),
      HttpReply(502, << "Bad Gateway" >>, None),
      HttpReply(502, << >>, None) }

\* response.ok
Ok(r) == r.status \in 200..299

HttpError(st) == << "HTTP error! Status: ", ToString(st) >>

\* The error handleSubmit throws on the response r, None when it throws none.
SubmitError(r) ==
    IF ~Ok(r)
    THEN IF ~IsSome(r.json)
         THEN Some(IF Len(r.statusText) > 0 THEN r.statusText ELSE HttpError(r.status))
         ELSE Some(MessageOr(Get(r.json).error, HttpError(r.status)))
    ELSE IF ~IsSome(r.json) THEN Some(<< "Unexpected token < in JSON at position 0" >>)
    ELSE IF ~IsSome(Get(r.json).readme)
    THEN Some(<< "Received invalid response format from the server." >>)
    ELSE None

\* onChange of the input, which is disabled while loading.
onChange(u) ==
    /\ ~isLoading
    /\ u # urlInput
    /\ urlInput' = u
    /\ UNCHANGED << server, generatedReadme, isLoading, error, statusMessage,
                    copyStatus, clipboardApi, submitAt, capturedError, reply, writes,
                    timers, copies, submits, statusSetBy >>

\* handleSubmit up to its await of fetch.  The submit button is disabled
\* while loading and the required input must be filled.
handleSubmit ==
    /\ ~isLoading
    /\ Len(urlInput) > 0
    /\ submits < MaxSubmits
    /\ submits' = submits + 1
    /\ capturedError' = error
    /\ generatedReadme' = << >>
    /\ copyStatus' = "idle"
    /\ statusSetBy' = 0
    /\ IF ~StartsWith(urlInput, "http://") /\ ~StartsWith(urlInput, "https://")
       THEN /\ error' = Some(<< "Please enter a valid repository URL (starting with http:// or https://)." >>)
            /\ isLoading' = FALSE
            /\ statusMessage' = << >>
            /\ submitAt' = "idle"
       ELSE /\ error' = None
            /\ isLoading' = TRUE
            /\ statusMessage' = << "Sending request to generate README..." >>
            /\ submitAt' = "fetch"
    /\ UNCHANGED << server, urlInput, clipboardApi, reply, writes, timers, copies >>

\* The catch and the finally of handleSubmit.
SubmitFails(msg) ==
    /\ error' = Some(MessageOr(msg, << "Failed to generate README. Check console or server logs." >>))
    /\ statusMessage' = << >>
    /\ isLoading' = FALSE
    /\ submitAt' = "idle"
    /\ UNCHANGED generatedReadme

\* await fetch(...) settles.
FetchSettles(r) ==
    /\ submitAt = "fetch"
    /\ IF r.kind = "rejects"
       THEN SubmitFails(r.message) /\ reply' = reply
       ELSE /\ statusMessage' = << "Waiting for AI generation..." >>
            /\ reply' = Some(r)
            /\ submitAt' = "json"
            /\ UNCHANGED << generatedReadme, isLoading, error >>
    /\ UNCHANGED << server, urlInput, copyStatus, clipboardApi, capturedError, writes,
                    timers, copies, submits, statusSetBy >>

\* await response.json() settles; the finally tests the error of the render
\* in which the submission started.
JsonSettles ==
    /\ submitAt = "json"
    /\ LET r == Get(reply)
           thrown == SubmitError(r)
       IN  IF IsSome(thrown)
           THEN SubmitFails(thrown)
           ELSE /\ generatedReadme' = Get(Get(r.json).readme)
                /\ statusMessage' = IF IsSome(capturedError) THEN << >>
                                    ELSE << "README generated successfully!" >>
                /\ isLoading' = FALSE
                /\ submitAt' = "idle"
                /\ error' = error
    /\ UNCHANGED << server, urlInput, copyStatus, clipboardApi, capturedError, reply,
                    writes, timers, copies, submits, statusSetBy >>

\* What Home() renders: the spinner of the submit button, the error box, the
\* output area with the copy button.
LoadingShown == isLoading
ErrorShown == IsSome(error) /\ Len(Get(error)) > 0
OutputShown == Len(generatedReadme) > 0 /\ ~isLoading

\* setTimeout(() => setCopyStatus('idle'), delay), scheduled by copy action id.
Timer(id, delay) == [by |-> id, delay |-> delay]

\* handleCopyReadme up to its await of writeText, or all of it where there
\* is no clipboard API.  The copy button is in the output area and is
\* disabled unless copyStatus is idle.
handleCopyReadme ==
    /\ OutputShown
    /\ copyStatus = "idle"
    /\ copies < MaxCopies
    /\ copies' = copies + 1
    /\ IF clipboardApi
       THEN /\ copyStatus' = "idle"
            /\ statusSetBy' = 0
            /\ writes' = writes \cup { copies + 1 }
            /\ UNCHANGED << error, timers >>
       ELSE /\ copyStatus' = "failed"
            /\ statusSetBy' = copies + 1
            /\ error' = Some(<< "Clipboard copying not supported in this browser/context." >>)
            /\ timers' = Append(timers, Timer(copies + 1, FailedDelay))
            /\ writes' = writes
    /\ UNCHANGED << server, urlInput, generatedReadme, isLoading, statusMessage,
                    clipboardApi, submitAt, capturedError, reply, submits >>

\* await navigator.clipboard.writeText(...) of copy action id settles.
WriteSettles(id, fulfilled) ==
    /\ id \in writes
    /\ writes' = writes \ { id }
    /\ copyStatus' = IF fulfilled THEN "copied" ELSE "failed"
    /\ statusSetBy' = id
    /\ timers' = Append(timers, Timer(id, IF fulfilled THEN CopiedDelay ELSE FailedDelay))
    /\ UNCHANGED << server, urlInput, generatedReadme, isLoading, error, statusMessage,
                    clipboardApi, submitAt, capturedError, reply, copies, submits >>

\* s without its i-th element.
RemoveAt(s, i) == SubSeq(s, 1, i - 1) \o SubSeq(s, i + 1, Len(s))

\* Timer i may expire now: no timer set earlier with a delay as short or
\* shorter is still pending.
MayExpire(i) == \A j \in 1..(i - 1) : timers[j].delay > timers[i].delay

\* The callback of timer i runs.  No timer is ever cleared.
TimerFires(i) ==
    /\ i \in DOMAIN timers
    /\ MayExpire(i)
    /\ timers' = RemoveAt(timers, i)
    /\ copyStatus' = "idle"
    /\ statusSetBy' = 0
    /\ UNCHANGED << server, urlInput, generatedReadme, isLoading, error, statusMessage,
                    clipboardApi, submitAt, capturedError, reply, writes, copies,
                    submits >>

\* Some request at rest, while the form runs.
RestWorld ==
    World(Sequential, [apiKey |-> TRUE, githubPat |-> TRUE], WidgetBody, FullRepo, AiText)

ClientInit == RequestInit({ RestWorld }) /\ FormInit(BOOLEAN)

ClientNext ==
    \/ \E u \in FormUrls : onChange(u)
    \/ handleSubmit
    \/ \E r \in Replies : FetchSettles(r)
    \/ JsonSettles
    \/ handleCopyReadme
    \/ \E id \in 1..MaxCopies, fulfilled \in BOOLEAN : WriteSettles(id, fulfilled)
    \/ \E i \in 1..MaxCopies : TimerFires(i)

ClientSpec == ClientInit /\ [][ClientNext]_vars

\* ------------------------------------------------- what the claims speak of

\* The tokens of sub occur in str, contiguously.
Mentions(str, sub) ==
    \E i \in 1..(Len(str) + 1) :
        /\ i + Len(sub) - 1 <= Len(str)
        /\ SubSeq(str, i, i + Len(sub) - 1) = sub

CredentialsConfigured == env.apiKey /\ env.githubPat

\* s[a..b] is a non-empty path segment.
Segment(s, a, b) == a <= b /\ b <= Len(s) /\ \A k \in a..b : s[k] # "/"

\* The hosting domain, in any case, then '/', starts at position i of s.
HasDomainAt(s, i) ==
    /\ i + Len(DomainLiteral) - 1 <= Len(s)
    /\ \A k \in 1..Len(DomainLiteral) :
          Canonicalize(s[i + k - 1]) = DomainLiteral[k]

\* s ends with hosting-domain/<owner>/<name>, the owner ending before the
\* slash at position j.
OwnerRepoAt(s, i, j) ==
    /\ HasDomainAt(s, i)
    /\ Segment(s, i + Len(DomainLiteral), j - 1)
    /\ s[j] = "/"
    /\ Segment(s, j + 1, Len(s))

RecognizableOwnerRepo(s) ==
    \E i \in 1..Len(s) : HasDomainAt(s, i) /\ \E j \in i..Len(s) : OwnerRepoAt(s, i, j)

\* repoUrl is missing, is no string, or has no owner/repo segment.
MalformedInput ==
    \/ body.kind # "value"
    \/ body.repoUrl.type # "string"
    \/ ~RecognizableOwnerRepo(body.repoUrl.str)

WellFormedRequest == CredentialsConfigured /\ ~MalformedInput

MandatoryCalls == { RepoCall, LangCall, RootCall }

\* Call c has been issued, has settled, and has failed.
HasFailed(c) == c \in Range(calls) /\ c \notin inflight /\ ~Answer(c).ok

GenerationIssued == GenCall \in Range(calls)

Answered == IsSome(response)

\* C1: when a mandatory hosting fetch has failed and generation fails too
\* (it throws, gives no response object, or text extraction throws), the
\* error string of the response mentions the fetch failure.
C1_ErrorMentionsFetchFailure ==
    ( /\ Answered
      /\ IsSome(fetchError)
      /\ \E c \in MandatoryCalls : HasFailed(c)
      /\ ai.kind \in { "throws", "noResponse", "textThrows" } )
    => /\ IsSome(Get(response).error)
       /\ Mentions(Get(Get(response).error), Get(fetchError))

\* C2: when a mandatory hosting fetch fails the handler does not answer at
\* that point: once the fetch phase is over fetchError is recorded, no
\* answer is given before the generation request is issued, and when
\* generation and text extraction succeed the answer is 200 with the readme.
C2_FetchFailureDegrades ==
    ( /\ \E c \in MandatoryCalls : ~Answer(c).ok
      /\ WellFormedRequest )
    => /\ pc \in { "generate", "awaitGen", "done" } => IsSome(fetchError)
       /\ Answered => GenerationIssued
       /\ pc = "done" => Answered
       /\ (Answered /\ ai.kind = "text") =>
             Get(response) = [status |-> 200, readme |-> Some(ai.text), error |-> None]

C2_Witness ==
    /\ pc = "done"
    /\ \E c \in MandatoryCalls : HasFailed(c)
    /\ IsSome(fetchError)
    /\ GenerationIssued
    /\ Answered
    /\ Get(response).status = 200
    /\ IsSome(Get(response).readme)

\* C3: with both credentials configured, a request whose repoUrl is missing,
\* is no string or has no owner/repo segment is answered with status 400 and
\* an error, and no outbound call is ever issued for it.
C3_BadUrlNoCalls ==
    (CredentialsConfigured /\ MalformedInput)
    => /\ calls = << >>
       /\ inflight = {}
       /\ pc \in { "start", "body", "awaitBody", "done" }
       /\ pc = "done" => Answered
       /\ Answered => /\ Get(response).status = 400
                      /\ IsSome(Get(response).error)
                      /\ ~IsSome(Get(response).readme)

C3_Witness ==
    /\ CredentialsConfigured
    /\ body.kind = "value"
    /\ body.repoUrl.type = "string"
    /\ Len(body.repoUrl.str) > 0
    /\ ~RecognizableOwnerRepo(body.repoUrl.str)
    /\ bodyRead
    /\ Answered
    /\ Get(response).status = 400
    /\ calls = << >>

\* C4: with either secret absent the handler answers 500 with the one
\* generic error string, whichever secret is missing and whatever the body,
\* without reading the body and without any outbound call.
C4_MissingSecretFailsFast ==
    ~CredentialsConfigured
    => /\ ~bodyRead
       /\ calls = << >>
       /\ pc \in { "start", "done" }
       /\ pc = "done" => Answered
       /\ Answered => Get(response) =
              [status |-> 500, readme |-> None,
               error |-> Some(<< "Server configuration error." >>)]

C4_Witness ==
    /\ env.apiKey
    /\ ~env.githubPat
    /\ body.kind = "malformed"
    /\ Answered
    /\ Get(response).status = 500
    /\ ~bodyRead

\* C5: every response is either 200 with a readme and no error, or 400 / 500
\* with an error and no readme; it is 400 exactly for malformed input (with
\* the credentials configured), and 500 exactly for a missing secret or a
\* failed generation.
C5_ResponseShape ==
    Answered =>
        LET r == Get(response) IN
        /\ \/ r.status = 200 /\ IsSome(r.readme) /\ ~IsSome(r.error)
           \/ r.status \in { 400, 500 } /\ IsSome(r.error) /\ ~IsSome(r.readme)
        /\ r.status = 400 <=> (CredentialsConfigured /\ MalformedInput)
        /\ r.status = 500 <=> \/ ~CredentialsConfigured
                              \/ (WellFormedRequest /\ ai.kind # "text")

C5_Witness ==
    /\ Answered
    /\ Get(response).status = 500
    /\ WellFormedRequest
    /\ ai.kind = "textThrows"
    /\ \E c \in MandatoryCalls : HasFailed(c)

\* '.git', in any case, is at position p of s and ends s.
EndsWithGitAt(s, p) ==
    /\ p + Len(GitSuffix) - 1 = Len(s)
    /\ \A k \in 1..Len(GitSuffix) : Canonicalize(s[p + k - 1]) = GitSuffix[k]

\* s is hosting-domain/<owner>/<name>[.git] with the domain at i, the owner
\* ending before the slash at j and the name ending at e; a name is read
\* without the .git suffix the URL ends with.
UrlShape(s, i, j, e) ==
    /\ j <= Len(s)
    /\ s[j] = "/"
    /\ e > j
    /\ HasDomainAt(s, i)
    /\ Segment(s, i + Len(DomainLiteral), j - 1)
    /\ Segment(s, j + 1, e)
    /\ \/ /\ e = Len(s)
          /\ ~(e - Len(GitSuffix) > j /\ EndsWithGitAt(s, e - Len(GitSuffix) + 1))
       \/ /\ e < Len(s)
          /\ EndsWithGitAt(s, e + 1)

\* C6: for a URL of the shape hosting-domain/<owner>/<name>, optionally
\* followed by .git, the domain in any case, the parser extracts exactly
\* that owner and that name, without the .git suffix.
C6_ParserExtractsOwnerRepo ==
    ( /\ pc \notin { "start", "body", "awaitBody" }
      /\ CredentialsConfigured
      /\ body.kind = "value"
      /\ body.repoUrl.type = "string" )
    => LET s == body.repoUrl.str IN
       \A i \in 1..Len(s) : HasDomainAt(s, i) =>
          \A j \in i..Len(s) : s[j] = "/" =>
             \A e \in j..Len(s) : UrlShape(s, i, j, e) =>
              /\ owner = Some(SubSeq(s, i + Len(DomainLiteral), j - 1))
              /\ repo = Some(SubSeq(s, j + 1, e))

\* The URL has the domain in upper case and a .git suffix, and was parsed.
C6_Witness ==
    /\ pc = "done"
    /\ body.kind = "value"
    /\ body.repoUrl.type = "string"
    /\ LET s == body.repoUrl.str IN
       /\ \E i \in 1..Len(s) : HasDomainAt(s, i) /\ s[i] = "G"
       /\ Len(s) > Len(GitSuffix)
       /\ SubSeq(s, Len(s) - Len(GitSuffix) + 1, Len(s)) = GitSuffix
       /\ \E i, j, e \in 1..Len(s) : UrlShape(s, i, j, e) /\ e < Len(s)
    /\ IsSome(owner)
    /\ IsSome(repo)
    /\ Get(response).status = 200

\* The string str, cut at its line breaks.
RECURSIVE LinesOf(_)
LinesOf(str) ==
    IF \E i \in 1..Len(str) : str[i] = "\n"
    THEN LET i == CHOOSE k \in 1..Len(str) :
                     str[k] = "\n" /\ \A m \in 1..(k - 1) : str[m] # "\n"
         IN  << SubSeq(str, 1, i - 1) >> \o LinesOf(SubSeq(str, i + 1, Len(str)))
    ELSE << str >>

IsBlankToken(t) == t \in { Indent, "        " }

\* A line without the indentation the template literal gives it.
Unindented(line) ==
    IF Len(line) > 0 /\ IsBlankToken(line[1]) THEN Tail(line) ELSE line

\* The lines of the context sent to generation, indentation removed.
ContextLines == LET ls == LinesOf(Get(context)) IN [i \in 1..Len(ls) |-> Unindented(ls[i])]

\* The labels of the fragments, in the order of the claim, and the two
\* forms of the fetch-error note.
FragmentLabels ==
    << "Repository URL: ", "Description: ", "Main Language: ", "Language Breakdown: ",
       "Root Directory Contents: ", "Package Name: ", "Dependencies: ",
       "Available Scripts: " >>
NoteLabels ==
    { "Note: GitHub fetch error occurred: ",
      "Note: There was an error fetching full details from GitHub: " }
ManifestLabels == { "Package Name: ", "Dependencies: ", "Available Scripts: " }

\* The context has a line that starts with the label.
HasFragment(label) ==
    \E i \in 1..Len(ContextLines) :
        Len(ContextLines[i]) > 0 /\ ContextLines[i][1] = label

\* The line of the context that starts with the label.
FragmentLine(label) ==
    ContextLines[CHOOSE i \in 1..Len(ContextLines) :
                     Len(ContextLines[i]) > 0 /\ ContextLines[i][1] = label]

HasNote == \E l \in NoteLabels : HasFragment(l)

\* The mandatory calls succeed and the manifest lookup answers not-found.
ManifestNotFound ==
    /\ \A c \in MandatoryCalls : Answer(c).ok
    /\ ~github.pkg.ok
    /\ github.pkg.status = 404

\* C7 as stated: when the manifest lookup answers not-found and the three
\* mandatory fetches succeed, no fetch error is recorded, the context has
\* the metadata, language and root-listing fragments and none of the
\* manifest's, and generation is requested and answered as in the
\* successful case.
C7_ManifestNotFoundIsNoFailure ==
    (ManifestNotFound /\ WellFormedRequest)
    => /\ fetchError = None
       /\ pc \in { "generate", "awaitGen", "done" } =>
             /\ IsSome(repoInfo)
             /\ IsSome(languages)
             /\ packageJsonContent = None
       /\ IsSome(context) =>
             /\ GenerationIssued
             /\ HasFragment("Description: ")
             /\ HasFragment("Main Language: ")
             /\ HasFragment("Language Breakdown: ")
             /\ HasFragment("Root Directory Contents: ")
             /\ \A l \in ManifestLabels : ~HasFragment(l)
             /\ ~HasNote
       /\ pc = "done" => Answered
       /\ (Answered /\ ai.kind = "text") =>
             Get(response) = [status |-> 200, readme |-> Some(ai.text), error |-> None]

\* The root listing the hosting API answered is an array with entries.
ListingHasEntries == github.root.data.isArray /\ Len(github.root.data.items) > 0

\* C7, amended: as stated, but the root-listing fragment is in the context
\* exactly when the listing answered is an array with at least one entry.
C7_ManifestNotFoundOmitsManifestOnly ==
    (ManifestNotFound /\ WellFormedRequest)
    => /\ fetchError = None
       /\ pc \in { "generate", "awaitGen", "done" } =>
             /\ IsSome(repoInfo)
             /\ IsSome(languages)
             /\ packageJsonContent = None
       /\ IsSome(context) =>
             /\ GenerationIssued
             /\ HasFragment("Description: ")
             /\ HasFragment("Main Language: ")
             /\ HasFragment("Language Breakdown: ")
             /\ HasFragment("Root Directory Contents: ") <=> ListingHasEntries
             /\ \A l \in ManifestLabels : ~HasFragment(l)
             /\ ~HasNote
       /\ pc = "done" => Answered
       /\ (Answered /\ ai.kind = "text") =>
             Get(response) = [status |-> 200, readme |-> Some(ai.text), error |-> None]

\* The manifest was not found, the listing answered is empty, and the
\* request has been answered 200 from a context without root-listing
\* fragment.
C7_Witness ==
    /\ ManifestNotFound
    /\ WellFormedRequest
    /\ PkgCall \in Range(calls)
    /\ PkgCall \notin inflight
    /\ github.root.data.isArray
    /\ ~ListingHasEntries
    /\ IsSome(context)
    /\ HasFragment("Description: ")
    /\ ~HasFragment("Root Directory Contents: ")
    /\ pc = "done"
    /\ Get(response).status = 200

\* C8: a failure of the manifest lookup with a status other than not-found
\* is a fetch failure: fetchError is recorded and the note is in the context
\* sent to generation.
C8_ManifestFailurePropagates ==
    ( /\ IsSome(context)
      /\ HasFailed(PkgCall)
      /\ github.pkg.status # 404 )
    => /\ IsSome(fetchError)
       /\ HasNote

\* The dependency names of the manifest the hosting API serves, in the
\* order the manifest lists them.
ManifestDependencies == Get(Get(Get(Get(github.pkg.data.content).json)).dependencies)

\* A manifest with more than 10 dependency names was fetched and its
\* context assembled.
ManyDependencies ==
    /\ IsSome(context)
    /\ IsSome(packageJsonContent)
    /\ IsSome(Get(packageJsonContent).dependencies)
    /\ Len(Get(Get(packageJsonContent).dependencies)) > DepLimit

\* The dependencies fragment is the label, 10 names separated by ', ', a
\* blank and the truncation indicator '...'.
TenNamesThenIndicator(line) ==
    /\ Len(line) = 2 * DepLimit + 2
    /\ line[1] = "Dependencies: "
    /\ \A k \in 1..(DepLimit - 1) : line[2 * k + 1] = ", "
    /\ line[2 * DepLimit + 1] = " "
    /\ line[2 * DepLimit + 2] = "..."

\* The names the fragment lists, in its order.
ListedNames(line) == [k \in 1..DepLimit |-> line[2 * k]]

PositionIn(names, x) == CHOOSE i \in 1..Len(names) : names[i] = x

\* Name a is enumerated before name b: array-index names first, in
\* ascending numeric order, then the other names in manifest order.
EnumeratedBefore(names, a, b) ==
    IF IsArrayIndex(a) /\ IsArrayIndex(b) THEN ArrayIndexValue[a] < ArrayIndexValue[b]
    ELSE IF IsArrayIndex(a) THEN TRUE
    ELSE IF IsArrayIndex(b) THEN FALSE
    ELSE PositionIn(names, a) < PositionIn(names, b)

\* C9 as stated: with more than 10 dependency names the fragment lists
\* exactly the first 10 names of the manifest, in manifest order, followed
\* by the truncation indicator.
C9_FirstTenInManifestOrder ==
    ManyDependencies =>
        LET line == FragmentLine("Dependencies: ") IN
        /\ TenNamesThenIndicator(line)
        /\ ListedNames(line) = SubSeq(ManifestDependencies, 1, DepLimit)

\* C9 as amended: with more than 10 dependency names the fragment lists
\* exactly 10 names followed by the truncation indicator; they are the
\* first 10 in the enumeration order of the object's keys, which is manifest
\* order except that names that are array indices come first, ascending.
C9_FirstTenInKeyOrder ==
    ManyDependencies =>
        LET line == FragmentLine("Dependencies: ")
            names == ManifestDependencies
            listed == ListedNames(line)
        IN  /\ TenNamesThenIndicator(line)
            /\ \A k \in 1..DepLimit : listed[k] \in Range(names)
            /\ \A k, m \in 1..DepLimit :
                  k < m => EnumeratedBefore(names, listed[k], listed[m])
            /\ \A x \in Range(names) \ Range(listed) :
                  EnumeratedBefore(names, listed[DepLimit], x)

\* More than 10 names, one of them an array index that the manifest lists
\* after its tenth name.
C9_Witness ==
    /\ ManyDependencies
    /\ pc = "done"
    /\ \E i \in (DepLimit + 1)..Len(ManifestDependencies) :
          IsArrayIndex(ManifestDependencies[i])
    /\ TenNamesThenIndicator(FragmentLine("Dependencies: "))

\* The fragments the context has, by the data fetched: the URL always, the
\* description and the main language with the metadata, the breakdown with
\* the language map, the listing when it has entries, the package name with
\* the manifest, dependencies and scripts when the manifest has them.
FragmentDue(label) ==
    CASE label = "Repository URL: " -> TRUE
      [] label = "Description: " -> IsSome(repoInfo)
      [] label = "Main Language: " -> IsSome(repoInfo)
      [] label = "Language Breakdown: " -> IsSome(languages)
      [] label = "Root Directory Contents: " -> Len(rootContent) > 0
      [] label = "Package Name: " -> IsSome(packageJsonContent)
      [] label = "Dependencies: " ->
            IsSome(packageJsonContent) /\ IsSome(Get(packageJsonContent).dependencies)
      [] label = "Available Scripts: " ->
            IsSome(packageJsonContent) /\ IsSome(Get(packageJsonContent).scripts)

\* The labels of the non-empty lines of the context, in order.
LineLabels ==
    LET NonEmpty(line) == Len(line) > 0
        ls == SelectSeq(ContextLines, NonEmpty)
    IN  [i \in 1..Len(ls) |-> ls[i][1]]

\* labels is a subsequence of FragmentLabels, then the note if there is one.
InFixedOrder(labels) ==
    /\ \A i \in 1..Len(labels) :
          \/ labels[i] \in Range(FragmentLabels)
          \/ (labels[i] \in NoteLabels /\ i = Len(labels))
    /\ \A i, j \in 1..Len(labels) :
          (i < j /\ labels[j] \in Range(FragmentLabels)) =>
              PositionIn(FragmentLabels, labels[i]) < PositionIn(FragmentLabels, labels[j])

\* A field of the fetched data is missing: null, undefined or ''.
Missing(v) == ~IsSome(v) \/ Len(Get(v)) = 0

\* C10 as stated: the context is only non-empty fragments, one on each line,
\* in the fixed order; a fragment whose data is missing (no description, no
\* primary language, no manifest name) is left out and no placeholder is
\* put in its place.  (Stated for the requests without fetch error, whose
\* context has no note.)
C10_NoPlaceholders ==
    (IsSome(context) /\ ~IsSome(fetchError)) =>
        /\ \A i \in 1..Len(ContextLines) : Len(ContextLines[i]) > 0
        /\ InFixedOrder(LineLabels)
        /\ "N/A" \notin Range(Get(context))
        /\ (IsSome(repoInfo) /\ Missing(Get(repoInfo).description))
              => ~HasFragment("Description: ")
        /\ (IsSome(repoInfo) /\ Missing(Get(repoInfo).language))
              => ~HasFragment("Main Language: ")
        /\ (IsSome(packageJsonContent) /\ Missing(Get(packageJsonContent).name))
              => ~HasFragment("Package Name: ")

\* The text a fragment shows for a field: the field, or 'N/A' for a missing one.
Shown(label, v) == << label >> \o (IF Missing(v) THEN << "N/A" >> ELSE Get(v))

\* C10 as amended: the non-empty lines of the context are fragments in the
\* fixed order URL, description, main language, language breakdown, root
\* listing, package name, dependencies, scripts, then the fetch-error note
\* if there is one; a fragment is present exactly when its source was
\* fetched (metadata, language map, a listing with entries, manifest, the
\* manifest's dependencies, its scripts); the description, main-language and
\* package-name fragments of a fetched source whose field is missing show
\* the placeholder 'N/A'; the concurrent handler emits no empty line but the
\* one in front of the note.
C10_FragmentsWithPlaceholders ==
    IsSome(context) =>
        /\ InFixedOrder(LineLabels)
        /\ \A i \in 1..Len(FragmentLabels) :
              HasFragment(FragmentLabels[i]) <=> FragmentDue(FragmentLabels[i])
        /\ HasNote <=> IsSome(fetchError)
        /\ FragmentLine("Repository URL: ") = << "Repository URL: " >> \o Get(repoUrl)
        /\ IsSome(repoInfo) =>
              /\ FragmentLine("Description: ")
                    = Shown("Description: ", Get(repoInfo).description)
              /\ FragmentLine("Main Language: ")
                    = Shown("Main Language: ", Get(repoInfo).language)
        /\ IsSome(packageJsonContent) =>
              FragmentLine("Package Name: ")
                  = Shown("Package Name: ", Get(packageJsonContent).name)
        /\ handler = Concurrent =>
              \A i \in 1..Len(ContextLines) :
                  Len(ContextLines[i]) = 0 =>
                      /\ i < Len(ContextLines)
                      /\ Len(ContextLines[i + 1]) > 0
                      /\ ContextLines[i + 1][1] \in NoteLabels

\* A repository without description and a manifest without name.
C10_Witness ==
    /\ IsSome(context)
    /\ pc = "done"
    /\ IsSome(repoInfo)
    /\ Missing(Get(repoInfo).description)
    /\ IsSome(packageJsonContent)
    /\ Missing(Get(packageJsonContent).name)
    /\ IsSome(Get(packageJsonContent).dependencies)
    /\ HasFragment("Description: ")
    /\ "N/A" \in Range(FragmentLine("Package Name: "))

\* C11: when the inference API gives no response object the answer is a
\* generation failure with status 500; when text extraction throws the
\* answer is a status-500 error whose message has the block reason whenever
\* the response exposes one and the finish reason whenever it exposes one.
C11_ExtractionErrorHasReasons ==
    (Answered /\ WellFormedRequest) =>
        LET r == Get(response) IN
        /\ ai.kind = "noResponse" => (r.status = 500 /\ IsSome(r.error))
        /\ ai.kind = "textThrows" =>
              /\ r.status = 500
              /\ IsSome(r.error)
              /\ IsSome(ai.blockReason) => Get(ai.blockReason) \in Range(Get(r.error))
              /\ IsSome(ai.finishReason) => Get(ai.finishReason) \in Range(Get(r.error))

\* Call c has been issued and has settled.
Completed(c) == c \in Range(calls) /\ c \notin inflight

\* A failure of a settled hosting call is what fetchError reports.
FailureSurfaced ==
    /\ IsSome(fetchError)
    /\ \E c \in Range(HostingCalls) :
          /\ HasFailed(c)
          /\ Mentions(Get(fetchError), StatusOrUnknown(Answer(c).status))
          /\ Mentions(Get(fetchError), Answer(c).message)

\* C13: the generation call is issued only after the hosting calls have been
\* joined: all four have completed, or a hard failure of one of them has
\* been recorded as the fetch error; in no interleaving of the concurrent
\* calls is it issued before that.
C13_GenerationAfterJoin ==
    GenerationIssued =>
        \/ \A c \in Range(HostingCalls) : Completed(c)
        \/ FailureSurfaced

\* Generation has been issued by the concurrent handler on the first hard
\* failure, with other hosting calls still in flight.
C13_Witness ==
    /\ handler = Concurrent
    /\ GenerationIssued
    /\ inflight # {}
    /\ FailureSurfaced

\* The handler has returned.
Returned == pc = "done"

NoCallTwice == \A i, j \in DOMAIN calls : i # j => calls[i] # calls[j]

\* The position of the handler, counted from its return.
StepsToReturn ==
    CASE pc = "start" -> 7
      [] pc = "body" -> 6
      [] pc = "awaitBody" -> 5
      [] pc = "fetch" -> 4
      [] pc \in { "awaitAll", "await" } -> 3
      [] pc = "generate" -> 2
      [] pc = "awaitGen" -> 1
      [] pc = "done" -> 0

\* A measure of the work left in the request: the hosting calls not yet
\* awaited one by one, the position of the handler, the replies outstanding.
WorkLeft ==
    100 * (Len(HostingCalls) - seqIdx) + 10 * StepsToReturn + Cardinality(inflight)

\* A step of the request is possible: the handler is at a step that awaits
\* nothing more (parsing the body read, building the prompt), or some other step is
\* enabled.
CanStep ==
    \/ pc \in { "awaitBody", "generate" }
    \/ ENABLED ( \/ CheckCredentials \/ ReadBody \/ FanOut \/ Join \/ SeqIssue \/ SeqSettles
                 \/ GenSettles
                 \/ \E c \in Range(HostingCalls) : HostingSettles(c) )

\* C14: whatever body parsing, the hosting calls, generation and text
\* extraction do, the handler returns once each has returned (until its
\* return a step is always possible, and every step reduces the work left),
\* it returns only with a JSON response (no exception escapes it), the
\* response once given does not change, and no outbound call is issued twice.
C14_TerminatesWithOneResponse ==
    /\ [](Returned => Answered)
    /\ [](NoCallTwice)
    /\ [](Returned \/ CanStep)
    /\ [][Answered => response' = response]_vars
    /\ [][WorkLeft' < WorkLeft]_vars

\* The concurrent handler has answered after a failed fan-out and a failed
\* text extraction, all five calls issued.
C14_Witness ==
    /\ handler = Concurrent
    /\ Returned
    /\ Answered
    /\ IsSome(fetchError)
    /\ ai.kind = "textThrows"
    /\ Len(calls) = 5

\* Call c fails hard: it fails, and is not the optional manifest lookup
\* answering not-found.
FailsHard(c) == ~Answer(c).ok /\ ~(c = PkgCall /\ Answer(c).status = 404)

\* C15: in the concurrent handler, when one of the four hosting calls fails
\* hard (a failure of the manifest lookup other than not-found included),
\* the context holds the repository URL and the fetch-error note and nothing
\* else, whatever the other calls returned.
C15_AllOrNothing ==
    ( /\ handler = Concurrent
      /\ IsSome(context)
      /\ \E c \in Range(HostingCalls) : FailsHard(c) )
    => LineLabels = << "Repository URL: ", "Note: GitHub fetch error occurred: " >>

\* The manifest lookup alone has failed hard, the three mandatory calls have
\* completed with data, and the context has been built.
C15_Witness ==
    /\ handler = Concurrent
    /\ IsSome(context)
    /\ FailsHard(PkgCall)
    /\ \A c \in MandatoryCalls : Answer(c).ok /\ Completed(c)
    /\ IsSome(github.repo.data.description)
    /\ inflight = {}

\* C12: after any sequence of submit, handler-response and copy events the
\* form shows one of idle, loading, success, error: the error message is not
\* shown together with the generated README or with the loading indicator,
\* and the README is not shown while loading.
C12_OneStateShown ==
    /\ ~(ErrorShown /\ OutputShown)
    /\ ~(ErrorShown /\ LoadingShown)
    /\ ~(OutputShown /\ LoadingShown)

\* Timer i expires in this step.
Expires(i) == i \in DOMAIN timers /\ timers' = RemoveAt(timers, i)

\* C16: at most one revert timer is pending at any time, and a timer that
\* expires reverts only a copied/failed status that was set by the copy
\* action that scheduled the timer, in every interleaving of copy clicks,
\* submissions, handler responses and timer expirations.
C16_OneTimerRevertsOwnStatus ==
    /\ [](Len(timers) <= 1)
    /\ [][\A i \in 1..MaxCopies :
            (Expires(i) /\ copyStatus # "idle") => statusSetBy = timers[i].by]_vars

====
